---------------------------- MODULE Spec2Model ----------------------------
(***************************************************************************)
(* np-website, src/src/App.tsx.                                            *)
(*                                                                         *)
(* Three parts of the file are modelled:                                   *)
(*   - ShaderPlane's host side: the memoised uniforms object, the          *)
(*     useFrame callback and the frame loop that calls it (Spec);          *)
(*   - the fragment shader's main(), one fragment at a time (ShaderSpec);  *)
(*   - App.handleCopyEmail with its fallbackCopy helper (CopySpec).        *)
(*                                                                         *)
(* GLSL floats are modelled in fixed point: a float x is the integer       *)
(* floor(x * FP).  Times are therefore in 1/FP seconds.                    *)
(***************************************************************************)
EXTENDS Integers, Sequences, FiniteSets

VARIABLES
    \* ---- ShaderPlane, host side
    mounted,        \* ShaderPlane is mounted: meshRef.current is the mesh
    uTime,          \* uniforms.uTime.value
    uResolution,    \* uniforms.uResolution.value, <<x, y>>
    window,         \* <<window.innerWidth, window.innerHeight>>
    elapsedTime,    \* state.clock.elapsedTime
    delta,          \* the frame's clock delta (the callback's second argument)
    pc,             \* frame loop: "idle", "callback" (subscribers run), "render"
    writes,         \* assignments to uTime.value during the current frame
    written,        \* some frame of this mount has assigned uTime.value
    renders,        \* executions of the ShaderPlane function since mount
    drawn,          \* what the last draw read: uniforms, window, clock
    \* ---- fragment shader
    frag,           \* index of the fragment being shaded
    uv, time, col, background, i, d,   \* locals of main()
    spc,            \* position in main()
    gl_FragColor,
    ref,            \* an earlier finished fragment, kept for comparison
    \* ---- handleCopyEmail
    hasClipboard,   \* navigator.clipboard && navigator.clipboard.writeText
    cpc,            \* position of each invocation
    toasts,         \* toasts raised by each invocation, in order
    body,           \* invocations whose textarea is a child of document.body
    running         \* the invocation executing synchronous code, or 0

hostVars   == <<mounted, uTime, uResolution, window, elapsedTime, delta, pc,
                writes, written, renders, drawn>>
loopVars   == <<mounted, window, elapsedTime, delta, pc, writes, written,
                renders, drawn>>
shaderVars == <<frag, uv, time, col, background, i, d, spc, gl_FragColor, ref>>
copyVars   == <<hasClipboard, cpc, toasts, body, running>>
vars       == <<hostVars, shaderVars, copyVars>>

---------------------------------------------------------------------------
(* Bounds *)

MaxClock   == 66      \* frames stop once the clock has reached this value
MaxRenders == 2       \* re-renders of ShaderPlane per mount
GridHalf   == 1       \* fragments per half axis: the grid is (2*GridHalf+1)^2
MaxSeconds == 2       \* shader times 0 .. MaxSeconds seconds
MaxClicks  == 3       \* invocations of handleCopyEmail

\* window sizes the environment produces, one of them degenerate
Sizes == {<<800, 600>>, <<1600, 1200>>, <<0, 600>>}

\* clock deltas between two frames; 0 is two frames within one timer tick
FrameDeltas == {0, 16, 33}

Degenerate(size) == size[1] = 0 \/ size[2] = 0

NoDraw == [none |-> TRUE]
NoRef  == [none |-> TRUE]

---------------------------------------------------------------------------
(* Fixed-point arithmetic for the shader's floats *)

FP    == 1000
PI    == 3142
TwoPi == 6283

Mul(a, b) == (a * b) \div FP
Div(a, b) == (a * FP) \div b
Abs(x)    == IF x < 0 THEN -x ELSE x
Fract(x)  == x % FP
Clamp(x, lo, hi) == IF x < lo THEN lo ELSE IF x > hi THEN hi ELSE x

\* sin on [0, PI], Bhaskara's rational approximation
SinHalf(y) == LET p == y * (PI - y)
              IN  (400 * p) \div ((((5 * PI * PI) \div 4) - p) \div 10)

Sin(x) == LET r == x % TwoPi
          IN  IF r <= PI THEN SinHalf(r) ELSE -SinHalf(r - PI)

Cos(x) == Sin(x + (PI \div 2))

RECURSIVE SqrtIter(_, _, _)
SqrtIter(n, lo, hi) ==
    IF hi - lo <= 1 THEN lo
    ELSE LET mid == (lo + hi) \div 2
         IN  IF mid * mid <= n THEN SqrtIter(n, mid, hi)
                               ELSE SqrtIter(n, lo, mid)

Sqrt(n) == SqrtIter(n, 0, 4096)

Length(p) == Sqrt(p[1] * p[1] + p[2] * p[2])

Smoothstep(edge0, edge1, x) ==
    LET t == Clamp(Div(x - edge0, edge1 - edge0), 0, FP)
    IN  Mul(Mul(t, t), 3 * FP - 2 * t)

Mix(x, y, a) == Mul(x, FP - a) + Mul(y, a)

Vec3Add(a, b)   == <<a[1] + b[1], a[2] + b[2], a[3] + b[3]>>
Vec3Scale(a, s) == <<Mul(a[1], s), Mul(a[2], s), Mul(a[3], s)>>
Vec3Plus(a, s)  == <<a[1] + s, a[2] + s, a[3] + s>>

---------------------------------------------------------------------------
(* ShaderPlane: uniforms, frame loop, useFrame callback *)

\* useMemo(() => ({uTime: {value: 0}, uResolution: {value: new Vector2(
\* window.innerWidth, window.innerHeight)}}), []): the factory runs on the
\* first render of a mount; later renders get the same object back.
UseMemoFresh ==
    [uTime |-> 0, uResolution |-> window]

UseMemoUniforms ==
    IF mounted THEN [uTime |-> uTime, uResolution |-> uResolution]
               ELSE [uTime |-> 0, uResolution |-> window]

\* initialize: the first render of ShaderPlane; the clock starts at 0.
Initialize ==
    /\ ~mounted
    /\ LET u == UseMemoUniforms
       IN  /\ uTime' = u.uTime
           /\ uResolution' = u.uResolution
    /\ mounted' = TRUE
    /\ elapsedTime' = 0
    /\ delta' = 0
    /\ pc' = "idle"
    /\ writes' = 0
    /\ written' = FALSE
    /\ renders' = 1
    /\ drawn' = NoDraw
    /\ UNCHANGED <<window, shaderVars, copyVars>>

\* a later render of the mounted ShaderPlane
Rerender ==
    /\ mounted
    /\ pc = "idle"
    /\ renders <= MaxRenders
    /\ LET u == UseMemoUniforms
       IN  /\ uTime' = u.uTime
           /\ uResolution' = u.uResolution
    /\ renders' = renders + 1
    /\ UNCHANGED <<mounted, window, elapsedTime, delta, pc, writes, written,
                   drawn, shaderVars, copyVars>>

\* a window resize event; App.tsx registers no handler for it and the
\* useMemo has no dependencies
ResizeResetsUniforms ==
    /\ pc = "idle"
    /\ \E size \in Sizes :
          /\ size # window
          /\ window' = size
          /\ uTime' = 0
          /\ uResolution' = size
    /\ UNCHANGED <<mounted, elapsedTime, delta, pc, writes, written,
                   renders, drawn, shaderVars, copyVars>>

Resize ==
    /\ pc = "idle"
    /\ \E size \in Sizes :
          /\ size # window
          /\ window' = size
    /\ UNCHANGED <<mounted, uTime, uResolution, elapsedTime, delta, pc,
                   writes, written, renders, drawn, shaderVars, copyVars>>

\* the frame loop advances the clock and starts calling its subscribers
BeginFrame ==
    /\ mounted
    /\ pc = "idle"
    /\ elapsedTime < MaxClock
    /\ \E dt \in FrameDeltas :
          /\ delta' = dt
          /\ elapsedTime' = elapsedTime + dt
    /\ pc' = "callback"
    /\ writes' = 0
    /\ UNCHANGED <<mounted, uTime, uResolution, window, written, renders,
                   drawn, shaderVars, copyVars>>

\* useFrame((state) => { if (meshRef.current) uTime.value = elapsedTime })
FrameCallbackWritesDelta ==
    /\ pc = "callback"
    /\ IF mounted
       THEN /\ uTime' = delta
            /\ writes' = writes + 1
            /\ written' = TRUE
       ELSE UNCHANGED <<uTime, writes, written>>
    /\ pc' = "render"
    /\ UNCHANGED <<mounted, uResolution, window, elapsedTime, delta, renders,
                   drawn, shaderVars, copyVars>>

FrameCallbackGuardInverted ==
    /\ pc = "callback"
    /\ IF ~mounted
       THEN /\ uTime' = elapsedTime
            /\ writes' = writes + 1
            /\ written' = TRUE
       ELSE UNCHANGED <<uTime, writes, written>>
    /\ pc' = "render"
    /\ UNCHANGED <<mounted, uResolution, window, elapsedTime, delta, renders,
                   drawn, shaderVars, copyVars>>

FrameCallback ==
    /\ pc = "callback"
    /\ IF mounted
       THEN /\ uTime' = elapsedTime
            /\ writes' = writes + 1
            /\ written' = TRUE
       ELSE UNCHANGED <<uTime, writes, written>>
    /\ pc' = "render"
    /\ UNCHANGED <<mounted, uResolution, window, elapsedTime, delta, renders,
                   drawn, shaderVars, copyVars>>

\* the draw of <mesh><shaderMaterial uniforms={uniforms}/></mesh>: the
\* shader is evaluated with the uniforms as they are now
Render ==
    /\ pc = "render"
    /\ drawn' = [uTime |-> uTime, uResolution |-> uResolution,
                 window |-> window, clock |-> elapsedTime]
    /\ pc' = "idle"
    /\ UNCHANGED <<mounted, uTime, uResolution, window, elapsedTime, delta,
                   writes, written, renders, shaderVars, copyVars>>

\* teardown: ShaderPlane unmounts, meshRef.current becomes null
Teardown ==
    /\ mounted
    /\ pc = "idle"
    /\ mounted' = FALSE
    /\ UNCHANGED <<uTime, uResolution, window, elapsedTime, delta, pc, writes,
                   written, renders, drawn, shaderVars, copyVars>>

---------------------------------------------------------------------------
(* Fragment shader *)

\* the fragments of one draw: a (2*GridHalf+1)^2 grid over vUv in [0,1]^2
GridSteps == 2 * GridHalf
LastFrag  == (GridSteps + 1) * (GridSteps + 1) - 1

VUv(k) == <<((k % (GridSteps + 1)) * FP) \div GridSteps,
            ((k \div (GridSteps + 1)) * FP) \div GridSteps>>

ShaderTimes == {s * FP : s \in 0 .. MaxSeconds}
ShaderSizes == {<<800, 600>>, <<1600, 1200>>}

\* vec2 uv = (vUv - 0.5) * 2.0;
NormalizedUvByResolution(v) ==
    <<Mul(Mul(v[1] - 500, 2000), Div(uResolution[1], 800)),
      Mul(Mul(v[2] - 500, 2000), Div(uResolution[1], 800))>>

NormalizedUv(v) == <<Mul(v[1] - 500, 2000), Mul(v[2] - 500, 2000)>>

\* float sdCircle(vec2 p, float r) { return length(p) - r; }
sdCircle(p, r) == Length(p) - r

\* vec2 p = uv * rot(a), with rot(a) = mat2(c, -s, s, c)
Rotate(v, a) ==
    LET c == Cos(a)
        s == Sin(a)
    IN  <<Mul(v[1], c) - Mul(v[2], s), Mul(v[1], s) + Mul(v[2], c)>>

\* if(i == 0.0) ...; if(i == 1.0) ...; if(i == 2.0) ...
LayerColorTealMissing(n) ==
    IF n = 0 THEN <<150, 250, 400>>
    ELSE IF n = 1000 THEN <<250, 150, 350>>
    ELSE IF n = 3000 THEN <<200, 300, 250>>
    ELSE <<0, 0, 0>>

LayerColor(n) ==
    IF n = 0 THEN <<150, 250, 400>>
    ELSE IF n = 1000 THEN <<250, 150, 350>>
    ELSE IF n = 2000 THEN <<200, 300, 250>>
    ELSE <<0, 0, 0>>

\* the ring value d of layer n at uv, lines 57-71
LayerField(n) ==
    LET p0 == Rotate(uv, Mul(Mul(time, 100), n + 1000))
        sc == 1000 + Mul(n, 300)
        p1 == <<Mul(p0[1], sc), Mul(p0[2], sc)>>
        px == p1[1] + Mul(Sin(Mul(p1[2], 3000)
                              + Mul(time, 1000 + Mul(n, 500))), 300)
        py == p1[2] + Mul(Cos(Mul(px, 2000)
                              + Mul(time, 1200 + Mul(n, 300))), 200)
        q  == <<Fract(Mul(px, 1500)) - 500, Fract(Mul(py, 1500)) - 500>>
        d0 == sdCircle(q, 200 - Mul(n, 50))
        d1 == Div(Abs(Sin(Mul(d0, 8000) + Mul(time, 2000))), 8000)
        d2 == Smoothstep(0, 100, d1)
    IN  1000 - d2

\* float noise = fract(sin(dot(uv, vec2(12.9898, 78.233))) * 43758.5453);
Noise(v) ==
    LET s == Sin(Mul(v[1], 12990) + Mul(v[2], 78233))
    IN  Fract(s * 43758 + ((s * 545) \div FP))

\* float vignette = 1.0 - length(uv * 0.5); col *= 0.7 + 0.3 * vignette;
VignetteBrightens(c, v) ==
    LET vignette == 1000 + Length(<<Mul(v[1], 500), Mul(v[2], 500)>>)
    IN  Vec3Scale(c, 700 + Mul(300, vignette))

Vignette(c, v) ==
    LET vignette == 1000 - Length(<<Mul(v[1], 500), Mul(v[2], 500)>>)
    IN  Vec3Scale(c, 700 + Mul(300, vignette))

\* lines 48-52 and the loop's initialiser
ShaderStartKeepsColor ==
    /\ spc = "start"
    /\ uv' = NormalizedUv(VUv(frag))
    /\ time' = Mul(uTime, 300)
    /\ col' = gl_FragColor
    /\ background' = <<80, 120, 180>>
    /\ i' = 0
    /\ spc' = "loop"
    /\ UNCHANGED <<frag, d, gl_FragColor, ref, hostVars, copyVars>>

ShaderStart ==
    /\ spc = "start"
    /\ uv' = NormalizedUv(VUv(frag))
    /\ time' = Mul(uTime, 300)
    /\ col' = <<0, 0, 0>>
    /\ background' = <<80, 120, 180>>
    /\ i' = 0
    /\ spc' = "loop"
    /\ UNCHANGED <<frag, d, gl_FragColor, ref, hostVars, copyVars>>

\* one pass of for(float i = 0.0; i < 3.0; i++) { ... }
LayerIteration ==
    /\ spc = "loop"
    /\ i < 3000
    /\ d' = LayerField(i)
    /\ col' = Vec3Add(col, Vec3Scale(Vec3Scale(LayerColor(i), d'),
                                     600 - Mul(i, 100)))
    /\ i' = i + 1000
    /\ UNCHANGED <<frag, uv, time, background, spc, gl_FragColor, ref,
                   hostVars, copyVars>>

\* the loop's exit, then lines 83-87
NoiseAndMix ==
    /\ spc = "loop"
    /\ ~(i < 3000)
    /\ LET bg == Vec3Plus(background, Mul(Noise(uv), 20))
       IN  /\ background' = bg
           /\ col' = <<Mix(bg[1], bg[1] + col[1], 800),
                       Mix(bg[2], bg[2] + col[2], 800),
                       Mix(bg[3], bg[3] + col[3], 800)>>
    /\ spc' = "vignette"
    /\ UNCHANGED <<frag, uv, time, i, d, gl_FragColor, ref, hostVars,
                   copyVars>>

\* lines 90-93
ApplyVignette ==
    /\ spc = "vignette"
    /\ col' = Vignette(col, uv)
    /\ gl_FragColor' = col'
    /\ spc' = "done"
    /\ UNCHANGED <<frag, uv, time, background, i, d, ref, hostVars, copyVars>>

\* the finished fragment, as a record to compare later fragments with
Finished ==
    [frag |-> frag, uTime |-> uTime, uResolution |-> uResolution,
     out |-> gl_FragColor, between |-> FALSE]

\* main() returns; its locals go out of scope
LocalsReset ==
    /\ uv' = <<0, 0>>
    /\ time' = 0
    /\ col' = <<0, 0, 0>>
    /\ background' = <<0, 0, 0>>
    /\ i' = 0
    /\ d' = 0

\* the draw goes on with its next fragment
NextFragment ==
    /\ spc = "done"
    /\ frag < LastFrag
    /\ frag' = frag + 1
    /\ spc' = "start"
    /\ LocalsReset
    /\ \/ ref' = ref
       \/ ref = NoRef /\ ref' = Finished
    /\ UNCHANGED <<gl_FragColor, hostVars, copyVars>>

\* the draw is complete; a later frame draws with its own uniform values
NextFrame ==
    /\ spc = "done"
    /\ frag = LastFrag
    /\ frag' = 0
    /\ spc' = "start"
    /\ LocalsReset
    /\ \E t \in ShaderTimes, r \in ShaderSizes :
          /\ uTime' = t
          /\ uResolution' = r
          /\ \E kept \in {ref} \cup (IF ref = NoRef THEN {Finished} ELSE {}) :
                ref' = IF kept # NoRef /\ kept.uTime # t
                       THEN [kept EXCEPT !.between = TRUE]
                       ELSE kept
    /\ UNCHANGED <<gl_FragColor, loopVars, copyVars>>

---------------------------------------------------------------------------
(* App.handleCopyEmail *)

Invocations == 1 .. MaxClicks

Toast(k, kind) == toasts' = [toasts EXCEPT ![k] = Append(@, kind)]

\* the button is clicked: lines 117-119 and the test of line 135; with the
\* clipboard API the call suspends at the await of line 137
Click(k) ==
    /\ running = 0
    /\ cpc[k] = "idle"
    /\ \A j \in Invocations : j < k => cpc[j] # "idle"
    /\ IF hasClipboard
       THEN /\ cpc' = [cpc EXCEPT ![k] = "awaiting"]
            /\ UNCHANGED running
       ELSE /\ cpc' = [cpc EXCEPT ![k] = "fallback"]
            /\ running' = k
    /\ UNCHANGED <<hasClipboard, toasts, body, hostVars, shaderVars>>

\* writeText's promise resolves: line 138
WriteResolved(k) ==
    /\ running = 0
    /\ cpc[k] = "awaiting"
    /\ Toast(k, "success")
    /\ cpc' = [cpc EXCEPT ![k] = "done"]
    /\ UNCHANGED <<hasClipboard, body, running, hostVars, shaderVars>>

\* writeText's promise rejects: the catch of line 139 calls fallbackCopy
WriteRejected(k) ==
    /\ running = 0
    /\ cpc[k] = "awaiting"
    /\ cpc' = [cpc EXCEPT ![k] = "fallback"]
    /\ running' = k
    /\ UNCHANGED <<hasClipboard, toasts, body, hostVars, shaderVars>>

\* fallbackCopy, lines 121-124: the textarea is created and appended
FallbackAppend(k) ==
    /\ running = k
    /\ cpc[k] = "fallback"
    /\ body' = body \cup {k}
    /\ cpc' = [cpc EXCEPT ![k] = "exec"]
    /\ UNCHANGED <<hasClipboard, toasts, running, hostVars, shaderVars>>

\* lines 126-127: execCommand returns, whatever it returns
ExecCommandReturns(k) ==
    /\ running = k
    /\ cpc[k] = "exec"
    /\ Toast(k, "success")
    /\ cpc' = [cpc EXCEPT ![k] = "remove"]
    /\ UNCHANGED <<hasClipboard, body, running, hostVars, shaderVars>>

\* lines 128-131: execCommand throws
ExecCommandThrowsAndReturns(k) ==
    /\ running = k
    /\ cpc[k] = "exec"
    /\ Toast(k, "error")
    /\ cpc' = [cpc EXCEPT ![k] = "done"]
    /\ running' = 0
    /\ UNCHANGED <<hasClipboard, body, hostVars, shaderVars>>

ExecCommandThrows(k) ==
    /\ running = k
    /\ cpc[k] = "exec"
    /\ Toast(k, "error")
    /\ cpc' = [cpc EXCEPT ![k] = "remove"]
    /\ UNCHANGED <<hasClipboard, body, running, hostVars, shaderVars>>

\* line 132, after the try statement
RemoveChild(k) ==
    /\ running = k
    /\ cpc[k] = "remove"
    /\ body' = body \ {k}
    /\ cpc' = [cpc EXCEPT ![k] = "done"]
    /\ running' = 0
    /\ UNCHANGED <<hasClipboard, toasts, hostVars, shaderVars>>

---------------------------------------------------------------------------
(* Initial states and specifications *)

ShaderAtRest ==
    /\ frag = 0
    /\ uv = <<0, 0>>
    /\ time = 0
    /\ col = <<0, 0, 0>>
    /\ background = <<0, 0, 0>>
    /\ i = 0
    /\ d = 0
    /\ spc = "start"
    /\ gl_FragColor = <<0, 0, 0>>
    /\ ref = NoRef

CopyAtRest ==
    /\ cpc = [k \in Invocations |-> "idle"]
    /\ toasts = [k \in Invocations |-> <<>>]
    /\ body = {}
    /\ running = 0

\* ShaderPlane has rendered once, in a visible window of some size
HostInit ==
    /\ window \in {size \in Sizes : ~Degenerate(size)}
    /\ mounted = TRUE
    /\ uTime = 0
    /\ uResolution = window
    /\ elapsedTime = 0
    /\ delta = 0
    /\ pc = "idle"
    /\ writes = 0
    /\ written = FALSE
    /\ renders = 1
    /\ drawn = NoDraw

Init ==
    /\ HostInit
    /\ ShaderAtRest
    /\ CopyAtRest
    /\ hasClipboard = TRUE

Next ==
    \/ Initialize
    \/ Rerender
    \/ Resize
    \/ BeginFrame
    \/ FrameCallback
    \/ Render
    \/ Teardown

Spec == Init /\ [][Next]_vars

\* a draw in progress, with any of the uniform values
ShaderInit ==
    /\ uTime \in ShaderTimes
    /\ uResolution \in ShaderSizes
    /\ window = <<800, 600>>
    /\ mounted = TRUE
    /\ elapsedTime = 0
    /\ delta = 0
    /\ pc = "render"
    /\ writes = 1
    /\ written = TRUE
    /\ renders = 1
    /\ drawn = NoDraw
    /\ ShaderAtRest
    /\ CopyAtRest
    /\ hasClipboard = TRUE

ShaderNext ==
    \/ ShaderStart
    \/ LayerIteration
    \/ NoiseAndMix
    \/ ApplyVignette
    \/ NextFragment
    \/ NextFrame

ShaderSpec == ShaderInit /\ [][ShaderNext]_vars

CopyInit ==
    /\ hasClipboard \in BOOLEAN
    /\ CopyAtRest
    /\ ShaderAtRest
    /\ HostInit
    /\ window = <<800, 600>>

CopyNext ==
    \E k \in Invocations :
        \/ Click(k)
        \/ WriteResolved(k)
        \/ WriteRejected(k)
        \/ FallbackAppend(k)
        \/ ExecCommandReturns(k)
        \/ ExecCommandThrows(k)
        \/ RemoveChild(k)

CopySpec == CopyInit /\ [][CopyNext]_vars

---------------------------------------------------------------------------
(* Properties *)

Brightness(c) == c[1] + c[2] + c[3]
LengthSquared(v) == v[1] * v[1] + v[2] * v[2]
FragUv(f) == NormalizedUv(VUv(f))
CenterFrag == LastFrag \div 2

\* one fragment for each distance |uv| that occurs on the grid
RadiusReps ==
    {CHOOSE f \in 0 .. LastFrag : LengthSquared(FragUv(f)) = r :
        r \in {LengthSquared(FragUv(g)) : g \in 0 .. LastFrag}}

\* the draw that a Render step makes of the state it starts in
DrawOfNow == [uTime |-> uTime, uResolution |-> uResolution,
              window |-> window, clock |-> elapsedTime]

\* C1: the Resolution uniform a frame's evaluation reads equals the live
\* viewport size, whatever resizes came before the frame (stated for the
\* frames drawn in a window of non-zero size; C5 is about the others).
C1_ResolutionIsLiveViewport ==
    (drawn # NoDraw /\ ~Degenerate(drawn.window))
        => drawn.uResolution = drawn.window

\* C2, as claimed: each frame's callback writes an Elapsed Time strictly
\* greater than the one the frame before it wrote.
C2_TimeStrictlyIncreases ==
    [][(pc = "callback" /\ pc' = "render" /\ written) => uTime' > uTime]_vars

\* C2, amended: each frame's callback writes an Elapsed Time no lower than
\* the one the frame before it wrote, and a strictly greater one whenever
\* the clock advanced between the two frames.
C2_TimeNeverDecreases ==
    [][(pc = "callback" /\ pc' = "render" /\ written)
         => /\ uTime' >= uTime
            /\ delta > 0 => uTime' > uTime]_vars

C2_LaterFrameWroteMore ==
    /\ pc = "render"
    /\ drawn # NoDraw
    /\ drawn.uTime > 0
    /\ uTime > drawn.uTime

\* C3: every frame sets Elapsed Time to that frame's clock value, once,
\* before the frame is drawn; no draw reads an earlier frame's value.
C3_FrameWritesClockOnce ==
    /\ pc = "render" => (uTime = elapsedTime /\ writes = 1)
    /\ drawn # NoDraw => drawn.uTime = drawn.clock

C3_SecondFrameReadyToDraw ==
    /\ pc = "render"
    /\ writes = 1
    /\ drawn # NoDraw
    /\ drawn.uTime > 0
    /\ elapsedTime > drawn.clock

\* C4: initialize leaves Elapsed Time 0 and Resolution the window size of
\* that moment, both stay so until a frame writes, and a re-render of the
\* mounted component changes neither uniform.
C4_InitializeSetsRerenderKeeps ==
    /\ [](mounted /\ ~written => uTime = 0)
    /\ [][/\ (~mounted /\ mounted') => (uTime' = 0 /\ uResolution' = window')
          /\ (mounted /\ renders' = renders + 1)
                => (uTime' = uTime /\ uResolution' = uResolution)]_vars

C4_RerenderedWithLiveUniforms ==
    /\ mounted
    /\ renders > 1
    /\ uTime > 0
    /\ uResolution # window

C6_ColorIndependentOfResolution ==
    (/\ spc = "done"
     /\ ref # NoRef
     /\ ref.frag = frag
     /\ ref.uTime = uTime
     /\ ref.uResolution # uResolution)
        => gl_FragColor = ref.out

C6_SameFragmentOtherResolution ==
    /\ spc = "done"
    /\ ref # NoRef
    /\ ref.frag = frag
    /\ ref.uTime = uTime
    /\ ref.uResolution = <<800, 600>>
    /\ uResolution = <<1600, 1200>>
    /\ gl_FragColor = ref.out

\* C7: a fragment evaluated again with the same (uv, Elapsed Time) gets the
\* colour it got before, whatever was evaluated in between.
C7_SameInputsSameColor ==
    (/\ spc = "done"
     /\ ref # NoRef
     /\ ref.frag = frag
     /\ ref.uTime = uTime)
        => gl_FragColor = ref.out

C7_SameInputsAfterOtherFrames ==
    /\ spc = "done"
    /\ ref # NoRef
    /\ ref.frag = frag
    /\ ref.uTime = uTime
    /\ ref.uResolution = uResolution
    /\ ref.between
    /\ gl_FragColor = ref.out

\* C8, as claimed: at a fixed Elapsed Time the output at a corner of the
\* view is darker than the output at its center.
C8_OutputDarkerAtCorner ==
    (/\ spc = "done"
     /\ ref # NoRef
     /\ ref.uTime = uTime
     /\ ref.frag = CenterFrag
     /\ frag \in {0, GridSteps, LastFrag - GridSteps, LastFrag})
        => Brightness(gl_FragColor) < Brightness(ref.out)

\* C8, amended: for a fixed colour going into the vignette step, the step's
\* output is strictly darker the greater |uv| is; and at Elapsed Time 0 the
\* output at uv = (1,1) is darker than the output at uv = (0,0).
C8_VignetteDarkensFixedColor ==
    /\ spc = "vignette"
         => \A f1, f2 \in RadiusReps :
               LengthSquared(FragUv(f1)) < LengthSquared(FragUv(f2))
                 => Brightness(Vignette(col, FragUv(f2)))
                      < Brightness(Vignette(col, FragUv(f1)))
    /\ (/\ spc = "done"
        /\ ref # NoRef
        /\ ref.uTime = 0
        /\ uTime = 0
        /\ ref.frag = CenterFrag
        /\ frag = LastFrag)
         => Brightness(gl_FragColor) < Brightness(ref.out)

C8_CornerAfterCenterAtTimeZero ==
    /\ spc = "done"
    /\ ref # NoRef
    /\ ref.uTime = 0
    /\ uTime = 0
    /\ ref.frag = CenterFrag
    /\ frag = LastFrag
    /\ uv = <<1000, 1000>>
    /\ Brightness(gl_FragColor) < Brightness(ref.out)

\* C9: the layer loop starts at i = 0, each pass adds
\* tint_i * d * (0.6 - 0.1 i) for i = 0, 1, 2 in turn with the three tints
\* of the claim, and the loop is left when i = 3.
C9_ThreeLayersInOrder ==
    [][/\ (spc = "start" /\ spc' = "loop") => (i' = 0 /\ col' = <<0, 0, 0>>)
       /\ (spc = "loop" /\ spc' = "loop")
            => /\ i \in {0, 1000, 2000}
               /\ i' = i + 1000
               /\ d' \in 0 .. 1000
               /\ LET tint == CASE i = 0    -> <<150, 250, 400>>
                                [] i = 1000 -> <<250, 150, 350>>
                                [] i = 2000 -> <<200, 300, 250>>
                      weight == CASE i = 0    -> 600
                                  [] i = 1000 -> 500
                                  [] i = 2000 -> 400
                  IN  col' = Vec3Add(col, Vec3Scale(Vec3Scale(tint, d'),
                                                    weight))
       /\ (spc = "loop" /\ spc' = "vignette") => i = 3000]_vars

C9_ThirdLayerContributed ==
    /\ spc = "loop"
    /\ i = 3000
    /\ d > 0
    /\ col[1] >= Mul(Mul(200, d), 400)

\* C10: an invocation of handleCopyEmail that has ended raised exactly one
\* toast and left no textarea in the document; no invocation ever raises a
\* second toast, and none raises one before its copy was attempted.
C10_OneToastNoTextareaLeft ==
    \A k \in Invocations :
       /\ Len(toasts[k]) <= 1
       /\ cpc[k] \in {"idle", "awaiting", "fallback", "exec"}
            => toasts[k] = <<>>
       /\ cpc[k] = "done" => (Len(toasts[k]) = 1 /\ k \notin body)

C10_EndedAfterExecCommandThrew ==
    \E k, j \in Invocations :
       /\ cpc[k] = "done"
       /\ toasts[k] = <<"error">>
       /\ cpc[j] = "done"
       /\ toasts[j] = <<"success">>
       /\ body = {}

===========================================================================
